---- MODULE Spec2Model ----
(***************************************************************************)
(* TideScore: the scoring function and the suggestions of                  *)
(* src/scoring_algorithm.py, and the two routes of src/app.py that store a *)
(* score.                                                                  *)
(*                                                                         *)
(* An applicant record is a Python dict.  It is modelled as a function     *)
(* from the field names the code reads to values; a value is a record      *)
(*    [t |-> tag, s |-> string, h |-> number in HALF units]                *)
(* with tag "absent" (key not in the dict), "none" (None), "str" (a        *)
(* string, s) or "num" (an int or float, h = 2 * value, so that x.5 is     *)
(* exact and int() has something to truncate).                             *)
(***************************************************************************)
EXTENDS Integers, Sequences, FiniteSets, TLC

VARIABLES
    data,     \* verified_data, the dict passed to calculate_tidescore
    pc,       \* where the call stands
    report,   \* the dict calculate_tidescore returned
    edits,    \* how many fields the caller has set
    raw,      \* final_raw_score
    scaled,   \* scaled_score
    risk,     \* risk_level
    suggestions,  \* the list get_score_suggestions returned last
    application   \* the application's document in db.applications

vars == <<data, pc, report, edits, raw, scaled, risk, suggestions, application>>

MaxEdits == 2

(* ---------------------------- Python values --------------------------- *)

Absent == [t |-> "absent", s |-> "", h |-> 0]

None == [t |-> "none", s |-> "", h |-> 0]

Str(x) == [t |-> "str", s |-> x, h |-> 0]

Num(n) == [t |-> "num", s |-> "", h |-> 2 * n]

\* the float n + 0.5
Half(n) == [t |-> "num", s |-> "", h |-> 2 * n + 1]

\* data.get(k): a missing key reads as None
Get(d, k) == IF d[k].t = "absent" THEN None ELSE d[k]

\* data.get(k, default)
GetD(d, k, default) == IF d[k].t = "absent" THEN default ELSE d[k]

\* v == 'literal'
\* a comparison with 'Yes' that also accepts the checkbox value 'on' and True
Eq_checkbox(v, lit) ==
    \/ v.t = "str" /\ v.s = lit
    \/ lit = "Yes" /\ (v.t = "bool" \/ (v.t = "str" /\ v.s = "on"))

Eq(v, lit) == v.t = "str" /\ v.s = lit

\* v in ['a', 'b', ...]
In(v, lits) == v.t = "str" /\ v.s \in lits

\* Python truthiness, as used by `x or 0`
Truthy(v) ==
    CASE v.t = "none" -> FALSE
      [] v.t = "absent" -> FALSE
      [] v.t = "str" -> v.s # ""
      [] v.t = "num" -> v.h # 0

\* the value used as it is, without `or 0`
OrZero_identity(v) == v

\* x or 0
OrZero(v) == IF Truthy(v) THEN v ELSE Num(0)

\* The strings float() accepts, with their value in half units.
DecimalValue ==
    [s \in {"2.5", "5", "6000", "60000"} |->
        CASE s = "2.5" -> 5
          [] s = "5" -> 10
          [] s = "6000" -> 12000
          [] s = "60000" -> 120000]

\* The strings int() accepts: no fraction part.
IntLiterals == {"5", "6000", "60000"}

\* float(v) raises: TypeError on None, ValueError on a string that is no number
FloatRaises(v) == v.t = "none" \/ (v.t = "str" /\ v.s \notin DOMAIN DecimalValue)

\* float(v), in half units
FloatOf(v) == IF v.t = "str" THEN DecimalValue[v.s] ELSE v.h

\* int(v) raises: TypeError on None, ValueError on a string that is no integer
IntRaises(v) == v.t = "none" \/ (v.t = "str" /\ v.s \notin IntLiterals)

\* int(v): truncation toward zero
IntOf(v) ==
    IF v.t = "str" THEN DecimalValue[v.s] \div 2
    ELSE IF v.h >= 0 THEN v.h \div 2 ELSE -((-v.h) \div 2)

\* x >= T for a float x held in half units
GE(x, T) == x >= 2 * T

Gated == {"Unverified", "Fraudulent"}

(* ------------------------------ sub-scores ---------------------------- *)

max_possible_raw_score == 740

\* the residency points granted only inside the employment_verified branch
calculate_personal_score_residency_nested(d) ==
    LET employment_status == GetD(d, "employment_status", Str(""))
        education_level == GetD(d, "education_level", Str(""))
        emp == IF Eq(Get(d, "employment_verified"), "Yes")
               THEN (CASE Eq(employment_status, "Employed (Full-time)") -> 20
                       [] Eq(employment_status, "Self-Employed (Business Owner)") -> 15
                       [] Eq(employment_status, "Employed (Part-time)") -> 10
                       [] Eq(employment_status, "Student") -> 5
                       [] OTHER -> 0)
                    + (IF Eq(Get(d, "residency_verified"), "Yes") THEN 10 ELSE 0)
               ELSE 0
        edu == IF In(education_level, {"HND/B.Sc", "Masters", "PhD"}) THEN 10
               ELSE IF In(education_level, {"OND/NCE", "Secondary School"}) THEN 5
               ELSE 0
    IN emp + edu

calculate_personal_score(d) ==
    LET employment_status == GetD(d, "employment_status", Str(""))
        education_level == GetD(d, "education_level", Str(""))
        emp == IF Eq(Get(d, "employment_verified"), "Yes")
               THEN CASE Eq(employment_status, "Employed (Full-time)") -> 20
                      [] Eq(employment_status, "Self-Employed (Business Owner)") -> 15
                      [] Eq(employment_status, "Employed (Part-time)") -> 10
                      [] Eq(employment_status, "Student") -> 5
                      [] OTHER -> 0
               ELSE 0
        res == IF Eq(Get(d, "residency_verified"), "Yes") THEN 10 ELSE 0
        edu == IF In(education_level, {"HND/B.Sc", "Masters", "PhD"}) THEN 10
               ELSE IF In(education_level, {"OND/NCE", "Secondary School"}) THEN 5
               ELSE 0
    IN emp + res + edu

\* a gate that forgets 'Fraudulent'
air_gated_unverified_only(d) == Eq(Get(d, "airtime_status"), "Unverified")

air_gated(d) == In(Get(d, "airtime_status"), Gated)

air_raises(d) ==
    /\ ~air_gated(d)
    /\ \E k \in {"airtime_spend_m1", "airtime_spend_m2", "airtime_spend_m3"} :
          FloatRaises(OrZero(GetD(d, k, Num(0))))

\* the consistency bonus granted only on top of a tier bonus
calculate_air_score_bonus_needs_tier(d) ==
    IF air_gated(d) THEN 0
    ELSE
      LET airtime_spend_m1 == FloatOf(OrZero(GetD(d, "airtime_spend_m1", Num(0))))
          airtime_spend_m2 == FloatOf(OrZero(GetD(d, "airtime_spend_m2", Num(0))))
          airtime_spend_m3 == FloatOf(OrZero(GetD(d, "airtime_spend_m3", Num(0))))
          total_spend == airtime_spend_m1 + airtime_spend_m2 + airtime_spend_m3
          tier == IF GE(total_spend, 15000) THEN 100
                  ELSE IF GE(total_spend, 10000) THEN 75
                  ELSE IF GE(total_spend, 5000) THEN 50
                  ELSE IF GE(total_spend, 2000) THEN 20
                  ELSE 0
          consistency == IF tier > 0 /\ airtime_spend_m1 > 0 /\ airtime_spend_m2 > 0
                            /\ airtime_spend_m3 > 0
                         THEN 20 ELSE 0
      IN tier + consistency

calculate_air_score(d) ==
    IF air_gated(d) THEN 0
    ELSE
      LET airtime_spend_m1 == FloatOf(OrZero(GetD(d, "airtime_spend_m1", Num(0))))
          airtime_spend_m2 == FloatOf(OrZero(GetD(d, "airtime_spend_m2", Num(0))))
          airtime_spend_m3 == FloatOf(OrZero(GetD(d, "airtime_spend_m3", Num(0))))
          total_spend == airtime_spend_m1 + airtime_spend_m2 + airtime_spend_m3
          tier == IF GE(total_spend, 15000) THEN 100
                  ELSE IF GE(total_spend, 10000) THEN 75
                  ELSE IF GE(total_spend, 5000) THEN 50
                  ELSE IF GE(total_spend, 2000) THEN 20
                  ELSE 0
          consistency == IF airtime_spend_m1 > 0 /\ airtime_spend_m2 > 0
                            /\ airtime_spend_m3 > 0
                         THEN 20 ELSE 0
      IN tier + consistency

bill_gated(d) == In(Get(d, "bill_status"), Gated)

BillFlags == {"electricity_verified", "dstv_verified", "internet_verified",
              "water_verified", "rent_verified"}

\* the extra 20 granted to every ungated record with two verified bills
calculate_bill_score_extra_unconditional(d) ==
    IF bill_gated(d) THEN 0
    ELSE
      LET verified_bills_count == Cardinality({k \in BillFlags : Eq(Get(d, k), "Yes")})
          tier == IF verified_bills_count >= 4 THEN 150
                  ELSE IF verified_bills_count >= 3 THEN 100
                  ELSE IF verified_bills_count >= 2 THEN 60
                  ELSE IF verified_bills_count >= 1 THEN 30
                  ELSE 0
          extra == IF verified_bills_count >= 2 THEN 20 ELSE 0
      IN tier + extra

calculate_bill_score(d) ==
    IF bill_gated(d) THEN 0
    ELSE
      LET verified_bills_count == Cardinality({k \in BillFlags : Eq(Get(d, k), "Yes")})
          tier == IF verified_bills_count >= 4 THEN 150
                  ELSE IF verified_bills_count >= 3 THEN 100
                  ELSE IF verified_bills_count >= 2 THEN 60
                  ELSE IF verified_bills_count >= 1 THEN 30
                  ELSE 0
          extra == IF verified_bills_count >= 2 /\ Eq(Get(d, "bill_status"), "Verified")
                   THEN 20 ELSE 0
      IN tier + extra

p2p_gated(d) == In(Get(d, "p2p_status"), Gated)

p2p_raises(d) ==
    /\ ~p2p_gated(d)
    /\ \/ IntRaises(OrZero(GetD(d, "num_unique_verified_p2p", Num(0))))
       \/ FloatRaises(OrZero(GetD(d, "p2p_total_value", Num(0))))

\* the top tier granted to a count of exactly 5
calculate_p2p_score_top_tier_exact(d) ==
    IF p2p_gated(d) THEN 0
    ELSE
      LET num_unique_verified_p2p == IntOf(OrZero(GetD(d, "num_unique_verified_p2p", Num(0))))
          p2p_total_value == FloatOf(OrZero(GetD(d, "p2p_total_value", Num(0))))
          tier == IF num_unique_verified_p2p = 5 THEN 80
                  ELSE IF num_unique_verified_p2p >= 3 THEN 50
                  ELSE IF num_unique_verified_p2p >= 1 THEN 20
                  ELSE 0
          value == IF GE(p2p_total_value, 50000) THEN 20 ELSE 0
          consistent == IF Eq(Get(d, "p2p_consistent_across_months"), "Yes")
                        THEN 10 ELSE 0
      IN tier + value + consistent

\* the value bonus granted only strictly above 50000
calculate_p2p_score_value_strict(d) ==
    IF p2p_gated(d) THEN 0
    ELSE
      LET num_unique_verified_p2p == IntOf(OrZero(GetD(d, "num_unique_verified_p2p", Num(0))))
          p2p_total_value == FloatOf(OrZero(GetD(d, "p2p_total_value", Num(0))))
          tier == IF num_unique_verified_p2p >= 5 THEN 80
                  ELSE IF num_unique_verified_p2p >= 3 THEN 50
                  ELSE IF num_unique_verified_p2p >= 1 THEN 20
                  ELSE 0
          value == IF p2p_total_value > 2 * 50000 THEN 20 ELSE 0
          consistent == IF Eq(Get(d, "p2p_consistent_across_months"), "Yes")
                        THEN 10 ELSE 0
      IN tier + value + consistent

calculate_p2p_score(d) ==
    IF p2p_gated(d) THEN 0
    ELSE
      LET num_unique_verified_p2p == IntOf(OrZero(GetD(d, "num_unique_verified_p2p", Num(0))))
          p2p_total_value == FloatOf(OrZero(GetD(d, "p2p_total_value", Num(0))))
          tier == IF num_unique_verified_p2p >= 5 THEN 80
                  ELSE IF num_unique_verified_p2p >= 3 THEN 50
                  ELSE IF num_unique_verified_p2p >= 1 THEN 20
                  ELSE 0
          value == IF GE(p2p_total_value, 50000) THEN 20 ELSE 0
          consistent == IF Eq(Get(d, "p2p_consistent_across_months"), "Yes")
                        THEN 10 ELSE 0
      IN tier + value + consistent

bank_gated(d) == In(Get(d, "bank_status"), Gated)

bank_raises(d) ==
    /\ ~bank_gated(d)
    /\ \/ IntRaises(OrZero(GetD(d, "consistent_deposits_months", Num(0))))
       \/ FloatRaises(OrZero(GetD(d, "avg_monthly_balance", Num(0))))

\* each tier of deposits and of balance added on top of the lower ones
calculate_bank_score_stacked_tiers(d) ==
    IF bank_gated(d) THEN 0
    ELSE
      LET consistent_deposits_months ==
              IntOf(OrZero(GetD(d, "consistent_deposits_months", Num(0))))
          avg_monthly_balance == FloatOf(OrZero(GetD(d, "avg_monthly_balance", Num(0))))
          deposits == (IF consistent_deposits_months >= 5 THEN 100 ELSE 0)
                      + (IF consistent_deposits_months >= 3 THEN 60 ELSE 0)
                      + (IF consistent_deposits_months >= 1 THEN 20 ELSE 0)
          balance == (IF GE(avg_monthly_balance, 10000) THEN 50 ELSE 0)
                     + (IF GE(avg_monthly_balance, 5000) THEN 30 ELSE 0)
                     + (IF GE(avg_monthly_balance, 1000) THEN 10 ELSE 0)
          flags == IF Eq(Get(d, "no_negative_flags"), "Yes") THEN 30 ELSE 0
      IN deposits + balance + flags

calculate_bank_score(d) ==
    IF bank_gated(d) THEN 0
    ELSE
      LET consistent_deposits_months ==
              IntOf(OrZero(GetD(d, "consistent_deposits_months", Num(0))))
          avg_monthly_balance == FloatOf(OrZero(GetD(d, "avg_monthly_balance", Num(0))))
          deposits == IF consistent_deposits_months >= 5 THEN 100
                      ELSE IF consistent_deposits_months >= 3 THEN 60
                      ELSE IF consistent_deposits_months >= 1 THEN 20
                      ELSE 0
          balance == IF GE(avg_monthly_balance, 10000) THEN 50
                     ELSE IF GE(avg_monthly_balance, 5000) THEN 30
                     ELSE IF GE(avg_monthly_balance, 1000) THEN 10
                     ELSE 0
          flags == IF Eq(Get(d, "no_negative_flags"), "Yes") THEN 30 ELSE 0
      IN deposits + balance + flags

Bonus == {"Family Member", "Religious Leader"}

\* the relationship bonus granted whether or not the guarantor is verified
calculate_guarantor_score_bonus_unverified(d) ==
    LET g1_verified == Eq(Get(d, "g1_verified"), "Yes")
        g2_verified == Eq(Get(d, "g2_verified"), "Yes")
        base == IF g1_verified /\ g2_verified THEN 70
                ELSE IF g1_verified \/ g2_verified THEN 30
                ELSE 0
        b1 == IF In(Get(d, "g1_relationship"), Bonus) THEN 10 ELSE 0
        b2 == IF In(Get(d, "g2_relationship"), Bonus) THEN 10 ELSE 0
    IN base + b1 + b2

\* the second relationship bonus written as an elif of the first
calculate_guarantor_score_elif_bonus(d) ==
    LET g1_verified == Eq(Get(d, "g1_verified"), "Yes")
        g2_verified == Eq(Get(d, "g2_verified"), "Yes")
        base == IF g1_verified /\ g2_verified THEN 70
                ELSE IF g1_verified \/ g2_verified THEN 30
                ELSE 0
        bonus == IF g1_verified /\ In(Get(d, "g1_relationship"), Bonus) THEN 10
                 ELSE IF g2_verified /\ In(Get(d, "g2_relationship"), Bonus) THEN 10
                 ELSE 0
    IN base + bonus

calculate_guarantor_score(d) ==
    LET g1_verified == Eq(Get(d, "g1_verified"), "Yes")
        g2_verified == Eq(Get(d, "g2_verified"), "Yes")
        base == IF g1_verified /\ g2_verified THEN 70
                ELSE IF g1_verified \/ g2_verified THEN 30
                ELSE 0
        b1 == IF g1_verified /\ In(Get(d, "g1_relationship"), Bonus) THEN 10 ELSE 0
        b2 == IF g2_verified /\ In(Get(d, "g2_relationship"), Bonus) THEN 10 ELSE 0
    IN base + b1 + b2

\* the penalties with the statuses read by data.get(k), no 'Unverified' default
calculate_penalties_no_default(d) ==
    LET g1_verified == Eq(Get(d, "g1_verified"), "Yes")
        g2_verified == Eq(Get(d, "g2_verified"), "Yes")
    IN (IF In(Get(d, "airtime_status"), Gated) THEN -10 ELSE 0)
       + (IF In(Get(d, "bill_status"), Gated) THEN -15 ELSE 0)
       + (IF In(Get(d, "p2p_status"), Gated) THEN -20 ELSE 0)
       + (IF ~g1_verified /\ ~g2_verified THEN -25 ELSE 0)
       + (IF In(Get(d, "bank_status"), Gated) THEN -30 ELSE 0)

calculate_penalties(d) ==
    LET airtime_status == GetD(d, "airtime_status", Str("Unverified"))
        bill_status == GetD(d, "bill_status", Str("Unverified"))
        p2p_status == GetD(d, "p2p_status", Str("Unverified"))
        bank_status == GetD(d, "bank_status", Str("Unverified"))
        g1_verified == Eq(Get(d, "g1_verified"), "Yes")
        g2_verified == Eq(Get(d, "g2_verified"), "Yes")
    IN (IF In(airtime_status, Gated) THEN -10 ELSE 0)
       + (IF In(bill_status, Gated) THEN -15 ELSE 0)
       + (IF In(p2p_status, Gated) THEN -20 ELSE 0)
       + (IF ~g1_verified /\ ~g2_verified THEN -25 ELSE 0)
       + (IF In(bank_status, Gated) THEN -30 ELSE 0)

(* --------------------------- main calculation ------------------------- *)

\* some int()/float() conversion of an ungated category raises ValueError
Raises(d) == air_raises(d) \/ p2p_raises(d) \/ bank_raises(d)

\* the sum with the guarantor score left out
overall_raw_score_without_guarantor(d) ==
    calculate_personal_score(d) + calculate_air_score(d) + calculate_bill_score(d)
    + calculate_p2p_score(d) + calculate_bank_score(d)

overall_raw_score_pre_penalties(d) ==
    calculate_personal_score(d) + calculate_air_score(d) + calculate_bill_score(d)
    + calculate_p2p_score(d) + calculate_bank_score(d) + calculate_guarantor_score(d)

\* the sum without the max(0, ...) clamp
final_raw_score_unclamped(pre, penalties) == pre + penalties

\* max(0, overall_raw_score_pre_penalties + total_penalties)
final_raw_score(pre, penalties) ==
    IF pre + penalties > 0 THEN pre + penalties ELSE 0

\* nearest, ties away from zero
RoundHalfUp(num, den) == (2 * num + den) \div (2 * den)

\* Python round() of num / den for num >= 0, den > 0: nearest, ties to even
RoundHalfEven(num, den) ==
    LET q == num \div den
        r == num % den
    IN IF 2 * r > den THEN q + 1
       ELSE IF 2 * r < den THEN q
       ELSE IF q % 2 = 0 THEN q ELSE q + 1

\* round((final_raw_score / max_possible_raw_score) * 850).  The double
\* arithmetic agrees with the exact quotient for every final in 0..740.
scaled_score(final) == RoundHalfEven(final * 850, max_possible_raw_score)

\* the tiers with exclusive lower bounds
risk_level_strict(score) ==
    IF score > 650 THEN "Low"
    ELSE IF score > 450 THEN "Medium"
    ELSE IF score > 250 THEN "High"
    ELSE "Very High"

risk_level(score) ==
    IF score >= 650 THEN "Low"
    ELSE IF score >= 450 THEN "Medium"
    ELSE IF score >= 250 THEN "High"
    ELSE "Very High"

(* --------------------------- suggestions ------------------------------ *)

\* m.get(k, default) on a dict held as a function
GetKey(m, k, default) == IF k \in DOMAIN m THEN m[k] ELSE default

\* the advisory strings, without their leading emoji
PersonalMessage ==
    "Improve your employment verification - provide better employment proof documents"

AirtimeMessage == "Increase your airtime spending consistency across all 3 months"

BillMessage == "Add more verified bill payments (electricity, DSTV, internet, etc.)"

BankMessage == "Maintain higher average bank balance and consistent deposits"

GuarantorMessage == "Add more reliable guarantors with strong relationships"

VeryHighRiskMessage == "Your score is very high risk. Focus on improving all areas above."

MediumRiskMessage == "Medium risk score. Improve multiple areas for better rates."

GoodMessage == "Good score! Minor improvements can get you to excellent range."

ExcellentMessage == "Excellent score! You qualify for our best rates!"

\* the overall message
overall_message(score) ==
    IF score < 250 THEN VeryHighRiskMessage
    ELSE IF score < 450 THEN MediumRiskMessage
    ELSE IF score < 650 THEN GoodMessage
    ELSE ExcellentMessage

\* the category checks chained with elif
get_score_suggestions_elif_categories(score_result) ==
    LET bd == GetKey(score_result, "breakdown", << >>)
        score == GetKey(score_result, "scaled_score", 0)
    IN (IF GetKey(bd, "Personal & Employment", 0) < 25 THEN <<PersonalMessage>>
        ELSE IF GetKey(bd, "Airtime & Data", 0) < 60 THEN <<AirtimeMessage>>
        ELSE IF GetKey(bd, "Bill Payments", 0) < 85 THEN <<BillMessage>>
        ELSE IF GetKey(bd, "Bank Activity", 0) < 100 THEN <<BankMessage>>
        ELSE IF GetKey(bd, "Guarantors", 0) < 45 THEN <<GuarantorMessage>>
        ELSE << >>)
       \o <<overall_message(score)>>

\* the overall message appended before the category messages
get_score_suggestions_overall_first(score_result) ==
    LET bd == GetKey(score_result, "breakdown", << >>)
        score == GetKey(score_result, "scaled_score", 0)
    IN <<overall_message(score)>>
       \o (IF GetKey(bd, "Personal & Employment", 0) < 25 THEN <<PersonalMessage>> ELSE << >>)
       \o (IF GetKey(bd, "Airtime & Data", 0) < 60 THEN <<AirtimeMessage>> ELSE << >>)
       \o (IF GetKey(bd, "Bill Payments", 0) < 85 THEN <<BillMessage>> ELSE << >>)
       \o (IF GetKey(bd, "Bank Activity", 0) < 100 THEN <<BankMessage>> ELSE << >>)
       \o (IF GetKey(bd, "Guarantors", 0) < 45 THEN <<GuarantorMessage>> ELSE << >>)

get_score_suggestions(score_result) ==
    LET bd == GetKey(score_result, "breakdown", << >>)
        score == GetKey(score_result, "scaled_score", 0)
    IN (IF GetKey(bd, "Personal & Employment", 0) < 25 THEN <<PersonalMessage>> ELSE << >>)
       \o (IF GetKey(bd, "Airtime & Data", 0) < 60 THEN <<AirtimeMessage>> ELSE << >>)
       \o (IF GetKey(bd, "Bill Payments", 0) < 85 THEN <<BillMessage>> ELSE << >>)
       \o (IF GetKey(bd, "Bank Activity", 0) < 100 THEN <<BankMessage>> ELSE << >>)
       \o (IF GetKey(bd, "Guarantors", 0) < 45 THEN <<GuarantorMessage>> ELSE << >>)
       \o <<overall_message(score)>>

Categories == {"Personal & Employment", "Airtime & Data", "Bill Payments",
               "P2P Transactions", "Bank Activity", "Guarantors"}

BreakdownKeys == Categories \cup {"Total Penalties", "Final Raw Score",
                                  "Overall Raw Score (Pre-Penalties)"}

\* the value of each key of the returned 'breakdown' dict
breakdown(d, pre, total_penalties, final) ==
    [k \in BreakdownKeys |->
        CASE k = "Personal & Employment" -> calculate_personal_score(d)
          [] k = "Airtime & Data" -> calculate_air_score(d)
          [] k = "Bill Payments" -> calculate_bill_score(d)
          [] k = "P2P Transactions" -> calculate_p2p_score(d)
          [] k = "Bank Activity" -> calculate_bank_score(d)
          [] k = "Guarantors" -> calculate_guarantor_score(d)
          [] k = "Total Penalties" -> total_penalties
          [] k = "Final Raw Score" -> final
          [] k = "Overall Raw Score (Pre-Penalties)" -> pre]

\* the dict of the second return statement, with its 'suggestions' entry
calculate_tidescore_final_result(d) ==
    LET pre == overall_raw_score_pre_penalties(d)
        total_penalties == calculate_penalties(d)
        final == final_raw_score(pre, total_penalties)
        score == scaled_score(final)
        bd == breakdown(d, pre, total_penalties, final)
    IN [scaled_score |-> score,
        risk_level |-> risk_level(score),
        breakdown |-> bd,
        suggestions |->
            get_score_suggestions(
                [scaled_score |-> score,
                 breakdown |-> [k \in Categories \ {"P2P Transactions"} |-> bd[k]]])]

\* the dict returned at the first return statement; defined when ~Raises(d)
calculate_tidescore(d) ==
    LET pre == overall_raw_score_pre_penalties(d)
        total_penalties == calculate_penalties(d)
        final == final_raw_score(pre, total_penalties)
        score == scaled_score(final)
    IN [scaled_score |-> score,
        risk_level |-> risk_level(score),
        breakdown |-> breakdown(d, pre, total_penalties, final)]

\* no report: before the call, and after a call that raised
NoReport == [scaled_score |-> 0, risk_level |-> "", breakdown |-> [k \in {} |-> 0]]

(* ------------------------------- inputs ------------------------------- *)

FlagFields == {"employment_verified", "residency_verified", "p2p_consistent_across_months",
               "no_negative_flags", "g1_verified", "g2_verified"} \cup BillFlags

StatusFields == {"airtime_status", "bill_status", "p2p_status", "bank_status"}

SpendFields == {"airtime_spend_m1", "airtime_spend_m2", "airtime_spend_m3"}

RelationshipFields == {"g1_relationship", "g2_relationship"}

Fields == FlagFields \cup StatusFields \cup SpendFields \cup RelationshipFields
          \cup {"employment_status", "education_level", "num_unique_verified_p2p",
                "p2p_total_value", "consistent_deposits_months", "avg_monthly_balance"}

\* the values a request may carry in field k
Values(k) ==
    CASE k \in FlagFields -> {Absent, Str("Yes"), Str("No")}
      [] k \in StatusFields ->
            {Absent, None, Str("Verified"), Str("Unverified"), Str("Fraudulent"), Str("Pending")}
      [] k \in SpendFields ->
            {Absent, None, Str(""), Str("abc"), Str("6000"), Half(0), Num(2000)}
      [] k \in RelationshipFields ->
            {Absent, Str("Family Member"), Str("Religious Leader"), Str("Friend")}
      [] k = "employment_status" ->
            {Absent, Str("Employed (Full-time)"), Str("Self-Employed (Business Owner)"),
             Str("Student"), Str("Unemployed")}
      [] k = "education_level" ->
            {Absent, Str("Masters"), Str("OND/NCE"), Str("Primary School")}
      [] k = "num_unique_verified_p2p" ->
            {Absent, Str("abc"), Str("2.5"), Num(1), Num(3), Half(4), Num(5)}
      [] k = "p2p_total_value" ->
            {Absent, Str("abc"), Str("60000"), Half(49999), Num(50000)}
      [] k = "consistent_deposits_months" ->
            {Absent, None, Str("abc"), Num(1), Num(3), Num(5)}
      [] k = "avg_monthly_balance" ->
            {Absent, Str("abc"), Num(999), Num(1000), Num(5000), Num(10000)}

\* {}
EmptyRecord == [k \in Fields |-> Absent]

\* the record of the full-credit scenario
FullCreditRecord ==
    [k \in Fields |->
        CASE k \in FlagFields -> Str("Yes")
          [] k \in StatusFields -> Str("Verified")
          [] k \in SpendFields -> Num(6000)
          [] k \in RelationshipFields -> Str("Family Member")
          [] k = "employment_status" -> Str("Employed (Full-time)")
          [] k = "education_level" -> Str("Masters")
          [] k = "num_unique_verified_p2p" -> Num(5)
          [] k = "p2p_total_value" -> Num(60000)
          [] k = "consistent_deposits_months" -> Num(5)
          [] k = "avg_monthly_balance" -> Num(12000)]

BaseRecords == {EmptyRecord, FullCreditRecord}

(* ---------------------------- state machine --------------------------- *)

\* the document a new application is stored as (the fields read here);
\* verified_at, a wall-clock time, is left out
NewApplication ==
    [verification_status |-> Str("Pending"),
     verified_by |-> None,
     admin_verified_data |-> None,
     score_result |-> None]

Init ==
    /\ data \in BaseRecords
    /\ pc = "input"
    /\ report = NoReport
    /\ edits = 0
    /\ raw = 0
    /\ scaled = 0
    /\ risk = ""
    /\ suggestions = << >>
    /\ application = NewApplication

\* the caller puts (or, with Absent, leaves out) one field of the request
SetField(k, v) ==
    /\ pc = "input"
    /\ edits < MaxEdits
    /\ v # data[k]
    /\ data' = [data EXCEPT ![k] = v]
    /\ edits' = edits + 1
    /\ UNCHANGED <<pc, report, raw, scaled, risk, suggestions, application>>

\* calculate_tidescore(data) returns its report
Calculate ==
    /\ pc = "input"
    /\ ~Raises(data)
    /\ report' = calculate_tidescore(data)
    /\ pc' = "returned"
    /\ UNCHANGED <<data, edits, raw, scaled, risk, suggestions, application>>

\* calculate_tidescore(data) raises
CalculateRaises ==
    /\ pc = "input"
    /\ Raises(data)
    /\ pc' = "raised"
    /\ UNCHANGED <<data, report, edits, raw, scaled, risk, suggestions, application>>

Next ==
    \/ \E k \in Fields : \E v \in Values(k) : SetField(k, v)
    \/ Calculate
    \/ CalculateRaises

Spec == Init /\ [][Next]_vars

(* The scaling and classification steps on their own, for every final raw  *)
(* score of the range 0..max_possible_raw_score.                           *)

InitScale ==
    /\ raw \in 0..max_possible_raw_score
    /\ pc = "final"
    /\ scaled = 0
    /\ risk = ""
    /\ data = EmptyRecord
    /\ report = NoReport
    /\ edits = 0
    /\ suggestions = << >>
    /\ application = NewApplication

\* scaled_score = round((final_raw_score / max_possible_raw_score) * 850)
Scale ==
    /\ pc = "final"
    /\ scaled' = scaled_score(raw)
    /\ pc' = "scaled"
    /\ UNCHANGED <<data, report, edits, raw, risk, suggestions, application>>

\* the if-chain that sets risk_level
Classify ==
    /\ pc = "scaled"
    /\ risk' = risk_level(scaled)
    /\ pc' = "classified"
    /\ UNCHANGED <<data, report, edits, raw, scaled, suggestions, application>>

NextScale == Scale \/ Classify

SpecScale == InitScale /\ [][NextScale]_vars

(* ------------------------- the web application ------------------------ *)
(* The admin's verification form and the stored application.  A form is a  *)
(* function from field names to values, Absent for a field the form does   *)
(* not carry.  Requests are those of a logged-in admin or user; the        *)
(* per-file statuses and the verification history are not modelled.        *)

FormFields ==
    {"overall_status", "employment_proof_status", "education_verified",
     "airtime_proof_status", "bank_statement_status", "g1_verified", "g2_verified",
     "g1_relationship_confirmed", "g2_relationship_confirmed"}

\* the dict with a 'p2p_status' entry beside the other statuses
verification_data_with_p2p_status(form) ==
    LET employment_status == Get(form, "employment_proof_status")
        airtime_status == Get(form, "airtime_proof_status")
        bank_status == Get(form, "bank_statement_status")
    IN [k \in Fields |->
           CASE k = "employment_verified" ->
                    IF Eq(employment_status, "Verified") THEN Str("Yes") ELSE Str("No")
             [] k = "residency_verified" -> Str("Yes")
             [] k = "airtime_status" ->
                    IF Eq(airtime_status, "Verified") THEN Str("Verified") ELSE Str("Unverified")
             [] k = "bill_status" -> Str("Verified")
             [] k = "p2p_status" -> Str("Verified")
             [] k = "bank_status" ->
                    IF Eq(bank_status, "Verified") THEN Str("Verified") ELSE Str("Unverified")
             [] k = "g1_verified" ->
                    IF Truthy(Get(form, "g1_verified")) THEN Str("Yes") ELSE Str("No")
             [] k = "g2_verified" ->
                    IF Truthy(Get(form, "g2_verified")) THEN Str("Yes") ELSE Str("No")
             [] k = "g1_relationship" -> GetD(form, "g1_relationship_confirmed", Str("No"))
             [] k = "g2_relationship" -> GetD(form, "g2_relationship_confirmed", Str("No"))
             [] OTHER -> Absent]

\* the dict verify_application passes to calculate_tidescore; its key
\* 'education_verified', which calculate_tidescore never reads, is left out
verification_data(form) ==
    LET employment_status == Get(form, "employment_proof_status")
        airtime_status == Get(form, "airtime_proof_status")
        bank_status == Get(form, "bank_statement_status")
    IN [k \in Fields |->
           CASE k = "employment_verified" ->
                    IF Eq(employment_status, "Verified") THEN Str("Yes") ELSE Str("No")
             [] k = "residency_verified" -> Str("Yes")
             [] k = "airtime_status" ->
                    IF Eq(airtime_status, "Verified") THEN Str("Verified") ELSE Str("Unverified")
             [] k = "bill_status" -> Str("Verified")
             [] k = "bank_status" ->
                    IF Eq(bank_status, "Verified") THEN Str("Verified") ELSE Str("Unverified")
             [] k = "g1_verified" ->
                    IF Truthy(Get(form, "g1_verified")) THEN Str("Yes") ELSE Str("No")
             [] k = "g2_verified" ->
                    IF Truthy(Get(form, "g2_verified")) THEN Str("Yes") ELSE Str("No")
             [] k = "g1_relationship" -> GetD(form, "g1_relationship_confirmed", Str("No"))
             [] k = "g2_relationship" -> GetD(form, "g2_relationship_confirmed", Str("No"))
             [] OTHER -> Absent]

\* Database.update_verification: the document after the $set
update_verification(doc, admin_email, verified_data, score_result, status) ==
    [doc EXCEPT !.verification_status = status,
                !.admin_verified_data = verified_data,
                !.score_result = score_result,
                !.verified_by = admin_email]

\* a status update that also clears the stored score
update_verification_status_only_clearing(doc, status, admin_email) ==
    [doc EXCEPT !.verification_status = status,
                !.verified_by = admin_email,
                !.score_result = None]

\* Database.update_verification_status_only: the document after the $set
update_verification_status_only(doc, status, admin_email) ==
    [doc EXCEPT !.verification_status = status,
                !.verified_by = admin_email]

\* Database.update_application_score: the document after the $set
update_application_score(doc, score_result) ==
    [doc EXCEPT !.score_result = score_result]

\* POST /admin/verify_application/<app_id>; a database write that fails
\* leaves the document as it was
VerifyApplication(form, admin_email) ==
    LET overall_status == Get(form, "overall_status")
        vd == verification_data(form)
    IN /\ IF Eq(overall_status, "Verified")
          THEN IF Raises(vd)
               THEN /\ data' = vd
                    /\ pc' = "raised"
                    /\ UNCHANGED <<report, application>>
               ELSE /\ data' = vd
                    /\ report' = calculate_tidescore(vd)
                    /\ pc' = "verified"
                    /\ application' \in
                          {update_verification(application, admin_email, vd,
                                               calculate_tidescore(vd), Str("Verified")),
                           application}
          ELSE /\ application' \in
                     {update_verification_status_only(application, overall_status,
                                                      admin_email),
                      application}
               /\ pc' = "status_updated"
               /\ UNCHANGED <<data, report>>
       /\ UNCHANGED <<edits, raw, scaled, risk, suggestions>>

\* POST /calculate_score; without an application in the session, or when the
\* write fails, the document stays as it was
CalculateScore(d) ==
    /\ data' = d
    /\ IF Raises(d)
       THEN /\ pc' = "raised"
            /\ UNCHANGED <<report, application>>
       ELSE /\ report' = calculate_tidescore(d)
            /\ pc' = "scored"
            /\ application' \in
                  {update_application_score(application, calculate_tidescore(d)),
                   application}
    /\ UNCHANGED <<edits, raw, scaled, risk, suggestions>>

InitApp ==
    /\ application = NewApplication
    /\ pc = "idle"
    /\ data = EmptyRecord
    /\ report = NoReport
    /\ edits = 0
    /\ raw = 0
    /\ scaled = 0
    /\ risk = ""
    /\ suggestions = << >>

\* one submission of the form on a new application, every form
ProofStatuses == {Absent, Str("Verified"), Str("Rejected")}

Checkboxes == {Absent, Str("on"), Str("")}

ConfirmedRelationships ==
    {Absent, Str(""), Str("Family Member"), Str("Religious Leader"), Str("Friend")}

AdminForm(os, ep, ed, ai, ba, c1, c2, r1, r2) ==
    [k \in FormFields |->
        CASE k = "overall_status" -> os
          [] k = "employment_proof_status" -> ep
          [] k = "education_verified" -> ed
          [] k = "airtime_proof_status" -> ai
          [] k = "bank_statement_status" -> ba
          [] k = "g1_verified" -> c1
          [] k = "g2_verified" -> c2
          [] k = "g1_relationship_confirmed" -> r1
          [] k = "g2_relationship_confirmed" -> r2]

Admins == {"admin@tidescore.test", "root@tidescore.test"}

NextAdmin ==
    /\ pc = "idle"
    /\ \E os \in ProofStatuses \cup {Str("Pending")}, ep \in ProofStatuses,
          ed \in {Absent, Str("Verified")}, ai \in ProofStatuses, ba \in ProofStatuses,
          c1 \in Checkboxes, c2 \in Checkboxes, r1 \in ConfirmedRelationships,
          r2 \in ConfirmedRelationships :
          VerifyApplication(AdminForm(os, ep, ed, ai, ba, c1, c2, r1, r2),
                            Str("admin@tidescore.test"))

SpecAdmin == InitApp /\ [][NextAdmin]_vars

\* any sequence of verification and scoring requests on one application
ScoreRequests ==
    {EmptyRecord, FullCreditRecord, [EmptyRecord EXCEPT !["airtime_spend_m1"] = Str("abc")]}

NextRequests ==
    \/ \E os \in {Absent, Str("Verified"), Str("Rejected")},
          ep \in {Absent, Str("Verified")}, c1 \in {Absent, Str("on")},
          r1 \in {Absent, Str("Family Member")}, admin \in Admins :
          VerifyApplication(AdminForm(os, ep, Absent, Absent, Absent, c1, Absent, r1, Absent),
                            Str(admin))
    \/ \E d \in ScoreRequests : CalculateScore(d)

SpecRequests == InitApp /\ [][NextRequests]_vars

(* The yes/no flags with values other than 'Yes' and 'No'.                  *)

\* the boolean True
PyTrue == [t |-> "bool", s |-> "", h |-> 2]

TruthValues == {Absent, Str("Yes"), Str("No"), Str("on"), Str("yes"), PyTrue, Num(1)}

InitFlags ==
    /\ \E b \in BaseRecords :
          \/ \E ev \in TruthValues, rv \in TruthValues :
                data = [b EXCEPT !["employment_verified"] = ev, !["residency_verified"] = rv]
          \/ \E el \in TruthValues, ds \in TruthValues, it \in TruthValues,
                wa \in TruthValues, re \in TruthValues :
                data = [b EXCEPT !["electricity_verified"] = el, !["dstv_verified"] = ds,
                                 !["internet_verified"] = it, !["water_verified"] = wa,
                                 !["rent_verified"] = re]
          \/ \E co \in TruthValues, nf \in TruthValues :
                data = [b EXCEPT !["p2p_consistent_across_months"] = co,
                                 !["no_negative_flags"] = nf]
          \/ \E v1 \in TruthValues, v2 \in TruthValues :
                data = [b EXCEPT !["g1_verified"] = v1, !["g2_verified"] = v2]
    /\ pc = "input"
    /\ report = NoReport
    /\ edits = 0
    /\ raw = 0
    /\ scaled = 0
    /\ risk = ""
    /\ suggestions = << >>
    /\ application = NewApplication

NextFlags == Calculate

SpecFlags == InitFlags /\ [][NextFlags]_vars

(* get_score_suggestions on its own, for reports with sub-scores and        *)
(* scaled scores on both sides of every threshold, and for dicts that lack *)
(* keys.                                                                   *)

SuggestReport(p, a, bi, pp, ba, g, s) ==
    [scaled_score |-> s,
     risk_level |-> risk_level(s),
     breakdown |->
        [k \in BreakdownKeys |->
            CASE k = "Personal & Employment" -> p
              [] k = "Airtime & Data" -> a
              [] k = "Bill Payments" -> bi
              [] k = "P2P Transactions" -> pp
              [] k = "Bank Activity" -> ba
              [] k = "Guarantors" -> g
              [] k = "Total Penalties" -> 0
              [] OTHER -> p + a + bi + pp + ba + g]]

\* dicts without some of the keys get_score_suggestions asks for
PartialReports ==
    {<< >>,
     [scaled_score |-> 700],
     [breakdown |-> [k \in {"Personal & Employment", "Guarantors"} |-> 40]],
     [scaled_score |-> 500,
      breakdown |-> [k \in {"Personal & Employment", "Airtime & Data", "Bill Payments",
                            "Bank Activity", "Guarantors"} |->
                        IF k = "Guarantors" THEN 90 ELSE 100]]}

InitSuggest ==
    /\ \/ \E p \in {0, 20, 25, 40}, a \in {0, 55, 60, 120}, bi \in {0, 80, 85, 170},
             pp \in {0, 110}, ba \in {0, 95, 100, 180}, g \in {0, 40, 70},
             s \in {0, 249, 250, 449, 450, 649, 650, 700, 850} :
             report = SuggestReport(p, a, bi, pp, ba, g, s)
       \/ report \in PartialReports
    /\ pc = "report"
    /\ data = EmptyRecord
    /\ edits = 0
    /\ raw = 0
    /\ scaled = 0
    /\ risk = ""
    /\ suggestions = << >>
    /\ application = NewApplication

\* the list kept from one call to the next (a shared default list)
Suggest_appending ==
    /\ pc \in {"returned", "report", "suggested"}
    /\ suggestions' = suggestions \o get_score_suggestions(report)
    /\ pc' = "suggested"
    /\ UNCHANGED <<data, report, edits, raw, scaled, risk, application>>

\* suggestions = get_score_suggestions(report); the list starts empty in
\* every call
Suggest ==
    /\ pc \in {"returned", "report", "suggested"}
    /\ suggestions' = get_score_suggestions(report)
    /\ pc' = "suggested"
    /\ UNCHANGED <<data, report, edits, raw, scaled, risk, application>>

NextSuggest == Suggest

SpecSuggest == InitSuggest /\ [][NextSuggest]_vars

(* One category at a time: every combination of values of the fields one   *)
(* category reads, the other fields as in {} or the full-credit record.    *)

StatusValues ==
    {Absent, None, Str("Verified"), Str("Unverified"), Str("Fraudulent"), Str("Pending")}

FlagValues == {Absent, Str("Yes"), Str("No")}

EmploymentValues ==
    {Absent, Str("Employed (Full-time)"), Str("Self-Employed (Business Owner)"),
     Str("Employed (Part-time)"), Str("Student"), Str("Unemployed")}

EducationValues ==
    {Absent, Str("HND/B.Sc"), Str("Masters"), Str("PhD"), Str("OND/NCE"),
     Str("Secondary School"), Str("Primary School")}

SpendValues ==
    {Absent, Str("abc"), Str("6000"), Num(0), Half(0), Num(1), Num(1999), Num(2000),
     Num(4999), Num(5000), Num(10000), Num(15000)}

CountValues ==
    {Absent, None, Str("abc"), Str("5"), Num(0), Half(0), Num(1), Num(2), Num(3),
     Half(4), Num(5), Num(6)}

TotalValues == {Absent, Str("60000"), Num(0), Num(49999), Half(49999), Num(50000)}

BalanceValues ==
    {Absent, Str("abc"), Num(0), Num(999), Half(999), Num(1000), Num(4999), Num(5000),
     Half(9999), Num(10000), Num(12000)}

RelationshipValues ==
    {Absent, Str("Family Member"), Str("Religious Leader"), Str("Friend")}

PersonalRecord(b, ev, es, rv, el) ==
    [b EXCEPT !["employment_verified"] = ev, !["employment_status"] = es,
              !["residency_verified"] = rv, !["education_level"] = el]

AirRecord(b, st, m1, m2, m3) ==
    [b EXCEPT !["airtime_status"] = st, !["airtime_spend_m1"] = m1,
              !["airtime_spend_m2"] = m2, !["airtime_spend_m3"] = m3]

BillRecord(b, st, el, ds, it, wa, re) ==
    [b EXCEPT !["bill_status"] = st, !["electricity_verified"] = el,
              !["dstv_verified"] = ds, !["internet_verified"] = it,
              !["water_verified"] = wa, !["rent_verified"] = re]

P2PRecord(b, st, n, tv, co) ==
    [b EXCEPT !["p2p_status"] = st, !["num_unique_verified_p2p"] = n,
              !["p2p_total_value"] = tv, !["p2p_consistent_across_months"] = co]

BankRecord(b, st, n, ba, nf) ==
    [b EXCEPT !["bank_status"] = st, !["consistent_deposits_months"] = n,
              !["avg_monthly_balance"] = ba, !["no_negative_flags"] = nf]

GuarantorRecord(b, v1, v2, r1, r2) ==
    [b EXCEPT !["g1_verified"] = v1, !["g2_verified"] = v2,
              !["g1_relationship"] = r1, !["g2_relationship"] = r2]

InitCat ==
    /\ \E b \in BaseRecords :
          \/ \E ev \in FlagValues, es \in EmploymentValues, rv \in FlagValues,
                el \in EducationValues : data = PersonalRecord(b, ev, es, rv, el)
          \/ \E st \in StatusValues, m1 \in SpendValues, m2 \in SpendValues,
                m3 \in SpendValues : data = AirRecord(b, st, m1, m2, m3)
          \/ \E st \in StatusValues, el \in FlagValues, ds \in FlagValues,
                it \in FlagValues, wa \in FlagValues, re \in FlagValues :
                data = BillRecord(b, st, el, ds, it, wa, re)
          \/ \E st \in StatusValues, n \in CountValues, tv \in TotalValues,
                co \in FlagValues : data = P2PRecord(b, st, n, tv, co)
          \/ \E st \in StatusValues, n \in CountValues, ba \in BalanceValues,
                nf \in FlagValues : data = BankRecord(b, st, n, ba, nf)
          \/ \E v1 \in FlagValues, v2 \in FlagValues, r1 \in RelationshipValues,
                r2 \in RelationshipValues : data = GuarantorRecord(b, v1, v2, r1, r2)
    /\ pc = "input"
    /\ report = NoReport
    /\ edits = 0
    /\ raw = 0
    /\ scaled = 0
    /\ risk = ""
    /\ suggestions = << >>
    /\ application = NewApplication

NextCat == Calculate \/ CalculateRaises

SpecCat == InitCat /\ [][NextCat]_vars

(* calculate_tidescore followed by get_score_suggestions on its report.    *)

NextAdvise == Next \/ Suggest

SpecAdvise == Init /\ [][NextAdvise]_vars

(* ----------------------------- properties ------------------------------ *)

Returned == pc = "returned"

Called == pc \in {"returned", "raised"}

B(k) == report.breakdown[k]

Risks == {"Low", "Medium", "High", "Very High"}

\* the status field that gates each gateable category
GateField ==
    [c \in {"Airtime & Data", "Bill Payments", "P2P Transactions", "Bank Activity"} |->
        CASE c = "Airtime & Data" -> "airtime_status"
          [] c = "Bill Payments" -> "bill_status"
          [] c = "P2P Transactions" -> "p2p_status"
          [] c = "Bank Activity" -> "bank_status"]

\* the category's status is 'Unverified' or 'Fraudulent'
GatedOff(c) ==
    data[GateField[c]] \in {Str("Unverified"), Str("Fraudulent")}

IntFields == {"num_unique_verified_p2p", "consistent_deposits_months"}

NumericFields ==
    SpendFields \cup IntFields \cup {"p2p_total_value", "avg_monthly_balance"}

\* the category that reads numeric field k
CategoryOf(k) ==
    IF k \in SpendFields THEN "Airtime & Data"
    ELSE IF k \in {"num_unique_verified_p2p", "p2p_total_value"} THEN "P2P Transactions"
    ELSE "Bank Activity"

\* C1: every report has an integer scaled_score with 0 <= scaled_score <= 850.
C1_ScaledScoreInRange == Returned => report.scaled_score \in 0..850

C1_Witness == Returned /\ report.scaled_score > 800 /\ data # FullCreditRecord

\* C2: a gateable category whose status is 'Unverified' or 'Fraudulent' has
\* sub-score 0 in the breakdown, whatever the other fields hold.
C2_Gating ==
    Returned => \A c \in DOMAIN GateField : GatedOff(c) => B(c) = 0

C2_Witness ==
    /\ Returned
    /\ data["airtime_status"] = Str("Fraudulent")
    /\ \A k \in SpendFields : data[k] = Num(6000)
    /\ B("Airtime & Data") = 0
    /\ B("Bill Payments") = 170

\* numeric field k holds a string that is no number, and its category is ungated
Malformed(k) ==
    /\ data[k].t = "str"
    /\ data[k].s \notin DOMAIN DecimalValue \cup {""}
    /\ ~GatedOff(CategoryOf(k))

\* the record with every malformed numeric field set to 0
ZeroMalformed == [k \in Fields |-> IF k \in NumericFields /\ Malformed(k) THEN Num(0) ELSE data[k]]

\* C3: a call on a record with a non-numeric string in a numeric field of an
\* ungated category does not raise; it returns the report of the record with
\* that field at 0.
C3_MalformedTreatedAsZero ==
    (Called /\ \E k \in NumericFields : Malformed(k))
        => (Returned /\ report = calculate_tidescore(ZeroMalformed))

Blank(v) == v \in {Absent, None, Str("")}

\* a present value of field k that the code's conversion accepts
WellFormedValue(k, v) ==
    \/ k \notin NumericFields
    \/ v.t = "num"
    \/ v.t = "str" /\ v.s \in (IF k \in IntFields THEN IntLiterals ELSE DOMAIN DecimalValue)

\* the record with every blank numeric field at 0, every blank flag at 'No' and
\* every blank employment, education or relationship field at an unlisted value
FillBlanks ==
    [k \in Fields |->
        IF ~Blank(data[k]) \/ k \in StatusFields THEN data[k]
        ELSE IF k \in NumericFields THEN Num(0)
        ELSE IF k \in FlagFields THEN Str("No")
        ELSE Str("Other")]

WellFormedReport ==
    /\ report.scaled_score \in 0..850
    /\ report.risk_level \in Risks
    /\ DOMAIN report.breakdown = BreakdownKeys
    /\ \A k \in BreakdownKeys : report.breakdown[k] \in Int

C5_Combination ==
    Returned =>
        /\ B("Overall Raw Score (Pre-Penalties)") =
              B("Personal & Employment") + B("Airtime & Data") + B("Bill Payments")
              + B("P2P Transactions") + B("Bank Activity") + B("Guarantors")
        /\ LET sum == B("Overall Raw Score (Pre-Penalties)") + B("Total Penalties")
           IN B("Final Raw Score") = IF sum > 0 THEN sum ELSE 0
        /\ B("Final Raw Score") >= 0

C5_Witness ==
    /\ Returned
    /\ B("Guarantors") > 0
    /\ B("Overall Raw Score (Pre-Penalties)") + B("Total Penalties") < 0
    /\ B("Final Raw Score") = 0

\* C6: scaled_score is raw * 850 / 740 rounded to the nearest integer, an exact
\* half going to the even neighbour; 185 gives 212, 555 gives 638; and no
\* smaller raw score gives a larger scaled_score.
C6_Scaling ==
    pc \in {"scaled", "classified"} =>
        /\ 2 * (740 * scaled - 850 * raw) <= 740
        /\ 2 * (850 * raw - 740 * scaled) <= 740
        /\ (2 * (850 * raw - 740 * scaled) \in {740, -740}) => scaled % 2 = 0
        /\ raw = 185 => scaled = 212
        /\ raw = 555 => scaled = 638
        /\ \A r \in 0..raw : scaled_score(r) <= scaled

C6_Witness == pc = "scaled" /\ raw = 555 /\ scaled = 638

\* C7: risk_level is decided by scaled_score alone: Low iff >= 650, Medium iff
\* 450..649, High iff 250..449, Very High iff < 250.
C7_RiskBands ==
    pc = "classified" =>
        /\ risk = "Low" <=> scaled >= 650
        /\ risk = "Medium" <=> (450 <= scaled /\ scaled < 650)
        /\ risk = "High" <=> (250 <= scaled /\ scaled < 450)
        /\ risk = "Very High" <=> scaled < 250
        /\ scaled = 650 => risk = "Low"
        /\ scaled = 450 => risk = "Medium"
        /\ scaled = 250 => risk = "High"
        /\ scaled = 649 => risk = "Medium"
        /\ scaled = 449 => risk = "High"
        /\ scaled = 249 => risk = "Very High"

C7_Witness == pc = "classified" /\ scaled = 650 /\ risk = "Low"

BothGuarantorsUnverified ==
    data["g1_verified"] # Str("Yes") /\ data["g2_verified"] # Str("Yes")

\* C8: Total Penalties is -10, -15, -20, -30 for each of airtime, bill, p2p,
\* bank that is gated off, plus -25 when both guarantors are unverified, and
\* lies in -100..0.
C8_PenaltySum ==
    Returned =>
        /\ B("Total Penalties") =
              (IF GatedOff("Airtime & Data") THEN -10 ELSE 0)
              + (IF GatedOff("Bill Payments") THEN -15 ELSE 0)
              + (IF GatedOff("P2P Transactions") THEN -20 ELSE 0)
              + (IF GatedOff("Bank Activity") THEN -30 ELSE 0)
              + (IF BothGuarantorsUnverified THEN -25 ELSE 0)
        /\ B("Total Penalties") \in -100..0

\* C9: with none of the four statuses 'Unverified' or 'Fraudulent' and both
\* guarantors verified, Total Penalties is 0.
C9_NoPenaltyWhenUngated ==
    (/\ Returned
     /\ \A c \in DOMAIN GateField : ~GatedOff(c)
     /\ data["g1_verified"] = Str("Yes")
     /\ data["g2_verified"] = Str("Yes"))
        => B("Total Penalties") = 0

\* C10: calculate_tidescore({}) has pre-penalty score 0, Total Penalties -100,
\* Final Raw Score 0, scaled_score 0 and risk_level 'Very High'.
C10_EmptyRecord ==
    (Returned /\ data = EmptyRecord) =>
        /\ B("Overall Raw Score (Pre-Penalties)") = 0
        /\ B("Total Penalties") = -100
        /\ B("Final Raw Score") = 0
        /\ report.scaled_score = 0
        /\ report.risk_level = "Very High"

C10_Witness == Returned /\ data = EmptyRecord /\ edits = 0

\* C11: the full-credit record yields sub-scores 40, 120, 170, 110, 180, 90,
\* pre-penalty sum 710, Total Penalties 0, scaled_score 816 and risk 'Low'.
C11_FullCredit ==
    (Returned /\ data = FullCreditRecord) =>
        /\ B("Personal & Employment") = 40
        /\ B("Airtime & Data") = 120
        /\ B("Bill Payments") = 170
        /\ B("P2P Transactions") = 110
        /\ B("Bank Activity") = 180
        /\ B("Guarantors") = 90
        /\ B("Overall Raw Score (Pre-Penalties)") = 710
        /\ B("Total Penalties") = 0
        /\ report.scaled_score = 816
        /\ report.risk_level = "Low"

C11_Witness == Returned /\ data = FullCreditRecord /\ edits = 0

\* flag k of the input record is true, i.e. the string 'Yes'
Yes(k) == data[k] = Str("Yes")

\* the amount in numeric field k of the input record, in halves; a field that
\* is absent or blank counts as 0
Amount(k) ==
    IF data[k].t = "num" THEN data[k].h
    ELSE IF data[k].t = "str" /\ data[k].s \in DOMAIN DecimalValue THEN DecimalValue[data[k].s]
    ELSE 0

\* the value of the tier reached by amount x (in halves) in a descending list
\* of <<threshold, value>> pairs, 0 when no threshold is reached
RECURSIVE Tier(_, _)
Tier(x, tiers) ==
    IF tiers = << >> THEN 0
    ELSE IF x >= 2 * Head(tiers)[1] THEN Head(tiers)[2]
    ELSE Tier(x, Tail(tiers))

\* C16: Personal & Employment = (20/15/10/5 by employment_status, only when
\* employment_verified is true) + (10 if residency_verified) + (10 for
\* HND/B.Sc, Masters, PhD; 5 for OND/NCE, Secondary School); whatever the
\* status fields hold.
C16_Personal ==
    Returned =>
        B("Personal & Employment") =
            (IF Yes("employment_verified")
             THEN CASE data["employment_status"] = Str("Employed (Full-time)") -> 20
                    [] data["employment_status"] = Str("Self-Employed (Business Owner)") -> 15
                    [] data["employment_status"] = Str("Employed (Part-time)") -> 10
                    [] data["employment_status"] = Str("Student") -> 5
                    [] OTHER -> 0
             ELSE 0)
            + (IF Yes("residency_verified") THEN 10 ELSE 0)
            + (IF data["education_level"] \in {Str("HND/B.Sc"), Str("Masters"), Str("PhD")}
               THEN 10
               ELSE IF data["education_level"] \in {Str("OND/NCE"), Str("Secondary School")}
               THEN 5 ELSE 0)

C16_Witness ==
    /\ Returned
    /\ ~Yes("employment_verified")
    /\ data["employment_status"] = Str("Employed (Part-time)")
    /\ Yes("residency_verified")
    /\ data["education_level"] = Str("Secondary School")
    /\ B("Personal & Employment") = 15

\* C17: an ungated Airtime & Data sub-score is the tier bonus on the three
\* months' total spend (>=15000: 100, >=10000: 75, >=5000: 50, >=2000: 20)
\* plus 20 when all three months are strictly positive, whatever the tier.
C17_Airtime ==
    (Returned /\ ~GatedOff("Airtime & Data")) =>
        B("Airtime & Data") =
            Tier(Amount("airtime_spend_m1") + Amount("airtime_spend_m2")
                 + Amount("airtime_spend_m3"),
                 << <<15000, 100>>, <<10000, 75>>, <<5000, 50>>, <<2000, 20>> >>)
            + (IF \A k \in SpendFields : Amount(k) > 0 THEN 20 ELSE 0)

C17_Witness ==
    /\ Returned
    /\ \A k \in SpendFields : data[k] = Num(1)
    /\ B("Airtime & Data") = 20

\* C18: an ungated Bill Payments sub-score is the tier on the number of
\* verified utility flags (>=4: 150, 3: 100, 2: 60, 1: 30) plus 20 only when
\* that number is at least 2 and bill_status is exactly 'Verified'.
C18_Bills ==
    (Returned /\ ~GatedOff("Bill Payments")) =>
        LET count == Cardinality({k \in BillFlags : Yes(k)})
        IN B("Bill Payments") =
               Tier(2 * count, << <<4, 150>>, <<3, 100>>, <<2, 60>>, <<1, 30>> >>)
               + (IF count >= 2 /\ data["bill_status"] = Str("Verified") THEN 20 ELSE 0)

C18_Witness ==
    /\ Returned
    /\ data["bill_status"] = Str("Pending")
    /\ Cardinality({k \in BillFlags : Yes(k)}) = 2
    /\ B("Bill Payments") = 60

\* C19: an ungated P2P Transactions sub-score is the tier on
\* num_unique_verified_p2p (>=5: 80, >=3: 50, >=1: 20) plus 20 when
\* p2p_total_value >= 50000 plus 10 when p2p_consistent_across_months is
\* true; the three terms add up, to at most 110.
C19_P2P ==
    (Returned /\ ~GatedOff("P2P Transactions")) =>
        /\ B("P2P Transactions") =
               Tier(Amount("num_unique_verified_p2p"), << <<5, 80>>, <<3, 50>>, <<1, 20>> >>)
               + (IF Amount("p2p_total_value") >= 2 * 50000 THEN 20 ELSE 0)
               + (IF Yes("p2p_consistent_across_months") THEN 10 ELSE 0)
        /\ B("P2P Transactions") <= 110

C19_Witness ==
    /\ Returned
    /\ data["p2p_status"] = Absent
    /\ data["num_unique_verified_p2p"] = Half(4)
    /\ data["p2p_total_value"] = Num(50000)
    /\ Yes("p2p_consistent_across_months")
    /\ B("P2P Transactions") = 80

\* the range declared for each category's sub-score
DeclaredMax ==
    [c \in Categories |->
        CASE c = "Personal & Employment" -> 50
          [] c = "Airtime & Data" -> 120
          [] c = "Bill Payments" -> 170
          [] c = "P2P Transactions" -> 110
          [] c = "Bank Activity" -> 200
          [] c = "Guarantors" -> 90]

\* C15: in every report each sub-score is an integer within its declared
\* range (0..50, 0..120, 0..170, 0..110, 0..200, 0..90) and Final Raw Score
\* lies in 0..740.
C15_CategoryBounds ==
    Returned =>
        /\ \A c \in Categories : B(c) \in 0..DeclaredMax[c]
        /\ B("Final Raw Score") \in 0..740

C15_Witness ==
    /\ Returned
    /\ data["bank_status"] = Str("Verified")
    /\ data["consistent_deposits_months"] = Num(6)
    /\ data["avg_monthly_balance"] = Num(12000)
    /\ Yes("no_negative_flags")
    /\ B("Bank Activity") = 180
    /\ B("Final Raw Score") = 710

\* the Bank Activity sub-score as the sum of its three terms
BankTerms ==
    Tier(Amount("consistent_deposits_months"), << <<5, 100>>, <<3, 60>>, <<1, 20>> >>)
    + Tier(Amount("avg_monthly_balance"), << <<10000, 50>>, <<5000, 30>>, <<1000, 10>> >>)
    + (IF Yes("no_negative_flags") THEN 30 ELSE 0)

\* the record earns the top tier of every Bank Activity term
BankTopTiers ==
    /\ Amount("consistent_deposits_months") >= 2 * 5
    /\ Amount("avg_monthly_balance") >= 2 * 10000
    /\ Yes("no_negative_flags")

\* C20: an ungated Bank Activity sub-score is the tier on
\* consistent_deposits_months (>=5: 100, >=3: 60, >=1: 20) plus the tier on
\* avg_monthly_balance (>=10000: 50, >=5000: 30, >=1000: 10) plus 30 when
\* no_negative_flags is true, and the category's maximum, earned by the top
\* tier of every term, is 200.
C20_Bank ==
    (Returned /\ ~GatedOff("Bank Activity")) =>
        /\ B("Bank Activity") = BankTerms
        /\ B("Bank Activity") <= 200
        /\ BankTopTiers => B("Bank Activity") = 200

\* the record earns the top tier of every term of every category
AllTopTiers ==
    /\ Yes("employment_verified")
    /\ data["employment_status"] = Str("Employed (Full-time)")
    /\ Yes("residency_verified")
    /\ data["education_level"] \in {Str("HND/B.Sc"), Str("Masters"), Str("PhD")}
    /\ \A c \in DOMAIN GateField : data[GateField[c]] = Str("Verified")
    /\ Amount("airtime_spend_m1") + Amount("airtime_spend_m2")
           + Amount("airtime_spend_m3") >= 2 * 15000
    /\ \A k \in SpendFields : Amount(k) > 0
    /\ \A k \in BillFlags : Yes(k)
    /\ Amount("num_unique_verified_p2p") >= 2 * 5
    /\ Amount("p2p_total_value") >= 2 * 50000
    /\ Yes("p2p_consistent_across_months")
    /\ BankTopTiers
    /\ Yes("g1_verified") /\ Yes("g2_verified")
    /\ data["g1_relationship"] \in {Str("Family Member"), Str("Religious Leader")}
    /\ data["g2_relationship"] \in {Str("Family Member"), Str("Religious Leader")}

\* C14: the largest reachable Final Raw Score is exactly 740: no report
\* exceeds 740 (scaled_score 850), and the record that earns the top tier of
\* every term reaches Final Raw Score 740 and scaled_score 850.
C14_MaximumRawScore ==
    Returned =>
        /\ B("Final Raw Score") <= 740
        /\ report.scaled_score <= 850
        /\ AllTopTiers => (B("Final Raw Score") = 740 /\ report.scaled_score = 850)

\* the largest Final Raw Score any report carries
FinalRawScoreAtMost710 == Returned => B("Final Raw Score") <= 710

\* the Bank Activity sub-score follows its three terms and never exceeds 180
BankTermsAtMost180 ==
    (Returned /\ ~GatedOff("Bank Activity")) =>
        (B("Bank Activity") = BankTerms /\ B("Bank Activity") <= 180)

\* the values numeric field k is raised to
RaiseTo(k) ==
    LET all == IF k \in SpendFields THEN SpendValues
               ELSE IF k \in IntFields THEN CountValues
               ELSE IF k = "p2p_total_value" THEN TotalValues
               ELSE BalanceValues
    IN {v \in all : v.t = "num" /\ v.h >= data[k].h}

\* the input record with one numeric field raised, or one flag switched from
\* false to true, every other field as it is
RaisedRecords ==
    UNION {{[data EXCEPT ![k] = v] : v \in RaiseTo(k)} :
              k \in {f \in NumericFields : data[f].t = "num"}}
    \cup {[data EXCEPT ![k] = Str("Yes")] : k \in {f \in FlagFields : ~Yes(f)}}

\* C12: raising one non-negative numeric field, or switching one flag from
\* false to true, every other field held constant, decreases no category's
\* sub-score, nor the Final Raw Score, nor scaled_score.
C12_Monotone ==
    Returned =>
        \A d2 \in RaisedRecords :
            ~Raises(d2) =>
                LET r2 == calculate_tidescore(d2)
                IN /\ \A c \in Categories : r2.breakdown[c] >= B(c)
                   /\ r2.breakdown["Final Raw Score"] >= B("Final Raw Score")
                   /\ r2.scaled_score >= report.scaled_score

C12_Witness ==
    /\ Returned
    /\ data["num_unique_verified_p2p"] = Num(5)
    /\ data["p2p_total_value"] = Num(49999)
    /\ ~Yes("p2p_consistent_across_months")
    /\ \E d2 \in RaisedRecords :
          /\ d2["num_unique_verified_p2p"] = Num(6)
          /\ calculate_tidescore(d2).scaled_score = report.scaled_score
    /\ \E d2 \in RaisedRecords :
          /\ d2["p2p_total_value"] = Num(50000)
          /\ calculate_tidescore(d2).scaled_score > report.scaled_score

\* the guarantor with these two fields is verified and is a family member or
\* a religious leader
BonusGuarantor(verified, relationship) ==
    Yes(verified) /\ data[relationship] \in {Str("Family Member"), Str("Religious Leader")}

\* C21: Guarantors = 70 when both guarantors are verified, 30 when exactly
\* one is, 0 when neither, plus 10 for each guarantor that is verified and is
\* a 'Family Member' or 'Religious Leader'; whatever the status fields hold,
\* and only ever 0, 30, 40, 70, 80 or 90.
C21_Guarantors ==
    Returned =>
        /\ B("Guarantors") =
               (IF Yes("g1_verified") /\ Yes("g2_verified") THEN 70
                ELSE IF Yes("g1_verified") \/ Yes("g2_verified") THEN 30
                ELSE 0)
               + (IF BonusGuarantor("g1_verified", "g1_relationship") THEN 10 ELSE 0)
               + (IF BonusGuarantor("g2_verified", "g2_relationship") THEN 10 ELSE 0)
        /\ B("Guarantors") \in {0, 30, 40, 70, 80, 90}

C21_Witness ==
    /\ Returned
    /\ Yes("g1_verified")
    /\ ~Yes("g2_verified")
    /\ data["g1_relationship"] = Str("Family Member")
    /\ data["g2_relationship"] = Str("Religious Leader")
    /\ B("Guarantors") = 40

Suggested == pc = "suggested"

\* how often message m occurs in the returned list
Occurrences(m) == Cardinality({i \in DOMAIN suggestions : suggestions[i] = m})

\* sub-score c of the report handed to get_score_suggestions, 0 when the
\* report has no such entry
ReportScore(c) ==
    IF "breakdown" \in DOMAIN report /\ c \in DOMAIN report.breakdown
    THEN report.breakdown[c] ELSE 0

\* the scaled_score of the report handed to get_score_suggestions, 0 when it
\* has none
ReportScaled == IF "scaled_score" \in DOMAIN report THEN report.scaled_score ELSE 0

\* the categories with a message, in order, with threshold and message
CategoryAdvice ==
    << <<"Personal & Employment", 25, PersonalMessage>>,
       <<"Airtime & Data", 60, AirtimeMessage>>,
       <<"Bill Payments", 85, BillMessage>>,
       <<"Bank Activity", 100, BankMessage>>,
       <<"Guarantors", 45, GuarantorMessage>> >>

OverallMessages == {VeryHighRiskMessage, MediumRiskMessage, GoodMessage, ExcellentMessage}

\* C22: each of Personal < 25, Airtime < 60, Bill < 85, Bank < 100,
\* Guarantors < 45 gives exactly one message when it holds and none
\* otherwise, independently of the others; exactly one overall message is
\* chosen by the bands <250, <450, <650, >=650; Personal = 0 brings the
\* employment-verification message, and scaled_score = 700 the 'Excellent
\* score' message and no risk warning.
C22_Suggestions ==
    Suggested =>
        /\ \A i \in DOMAIN CategoryAdvice :
              Occurrences(CategoryAdvice[i][3]) =
                  IF ReportScore(CategoryAdvice[i][1]) < CategoryAdvice[i][2] THEN 1 ELSE 0
        /\ Occurrences(VeryHighRiskMessage) = IF ReportScaled < 250 THEN 1 ELSE 0
        /\ Occurrences(MediumRiskMessage) =
               IF ReportScaled >= 250 /\ ReportScaled < 450 THEN 1 ELSE 0
        /\ Occurrences(GoodMessage) =
               IF ReportScaled >= 450 /\ ReportScaled < 650 THEN 1 ELSE 0
        /\ Occurrences(ExcellentMessage) = IF ReportScaled >= 650 THEN 1 ELSE 0
        /\ ReportScore("Personal & Employment") = 0 => Occurrences(PersonalMessage) = 1
        /\ ReportScaled = 700 =>
              /\ Occurrences(ExcellentMessage) = 1
              /\ Occurrences(VeryHighRiskMessage) = 0
              /\ Occurrences(MediumRiskMessage) = 0

C22_Witness ==
    /\ Suggested
    /\ ReportScaled = 700
    /\ ReportScore("Personal & Employment") = 0
    /\ ReportScore("Airtime & Data") = 60
    /\ ReportScore("Bill Payments") = 80
    /\ ReportScore("Bank Activity") = 100
    /\ ReportScore("Guarantors") = 70
    /\ suggestions = <<PersonalMessage, BillMessage, ExcellentMessage>>

Rank(m) ==
    CASE m = PersonalMessage -> 1
      [] m = AirtimeMessage -> 2
      [] m = BillMessage -> 3
      [] m = BankMessage -> 4
      [] m = GuarantorMessage -> 5
      [] m \in OverallMessages -> 6
      [] OTHER -> 0

\* C29: the list has between 1 and 6 entries, holds only the five category
\* messages (none of them for P2P Transactions) in the order Personal,
\* Airtime, Bill, Bank, Guarantors, and ends with the one overall message.
C29_SuggestionOrder ==
    Suggested =>
        /\ Len(suggestions) \in 1..6
        /\ \A i \in DOMAIN suggestions : Rank(suggestions[i]) >= 1
        /\ \A i, j \in DOMAIN suggestions : i < j => Rank(suggestions[i]) < Rank(suggestions[j])
        /\ Rank(suggestions[Len(suggestions)]) = 6

C29_Witness ==
    /\ Suggested
    /\ ReportScore("P2P Transactions") = 0
    /\ suggestions = <<PersonalMessage, AirtimeMessage, BillMessage, BankMessage,
                       GuarantorMessage, VeryHighRiskMessage>>
    /\ report # << >>

\* C28: the overall message chosen for a report of calculate_tidescore names
\* the report's risk_level: 'very high risk' only with 'Very High', 'Medium
\* risk score' only with 'Medium', 'Excellent score' only with 'Low'.
C28_MessageMatchesRisk ==
    (Suggested /\ report # NoReport) =>
        /\ Occurrences(VeryHighRiskMessage) > 0 => report.risk_level = "Very High"
        /\ Occurrences(MediumRiskMessage) > 0 => report.risk_level = "Medium"
        /\ Occurrences(ExcellentMessage) > 0 => report.risk_level = "Low"

\* C24: every report of calculate_tidescore has risk_level among Low, Medium,
\* High, Very High, a breakdown with exactly the six category names, 'Total
\* Penalties', 'Final Raw Score' and 'Overall Raw Score (Pre-Penalties)', and
\* no 'suggestions' entry.
C24_ReportShape ==
    Returned =>
        /\ report.risk_level \in {"Low", "Medium", "High", "Very High"}
        /\ DOMAIN report.breakdown =
               {"Personal & Employment", "Airtime & Data", "Bill Payments",
                "P2P Transactions", "Bank Activity", "Guarantors", "Total Penalties",
                "Final Raw Score", "Overall Raw Score (Pre-Penalties)"}
        /\ Cardinality(DOMAIN report.breakdown) = 9
        /\ DOMAIN report = {"scaled_score", "risk_level", "breakdown"}

C24_Witness ==
    /\ Returned
    /\ report.risk_level = "Medium"
    /\ "suggestions" \notin DOMAIN report
    /\ suggestions = << >>

\* the penalty a report shows for gateable category c alone: what is left of
\* Total Penalties once the guarantor penalty is taken out, read where the
\* other three statuses are 'Verified' and so add nothing
OnlyPenaltyOf(c) ==
    B("Total Penalties") - (IF BothGuarantorsUnverified THEN -25 ELSE 0)

OthersVerified(c) ==
    \A o \in DOMAIN GateField \ {c} : data[GateField[o]] = Str("Verified")

\* C25: for each gateable category and every record, a missing status
\* included, the category's penalty is applied exactly when the category is
\* gated off, and no report shows both a positive sub-score for a category
\* and that category's penalty.
C25_GatePenaltyAgreement ==
    Returned =>
        \A c \in DOMAIN GateField :
            OthersVerified(c) =>
                /\ (OnlyPenaltyOf(c) # 0) <=> GatedOff(c)
                /\ B(c) > 0 => OnlyPenaltyOf(c) = 0

\* the input record with every flag that is not the string 'Yes' set to 'No'
FlagsAsYesNo ==
    [k \in Fields |->
        IF k \in FlagFields /\ data[k] # Str("Yes") THEN Str("No") ELSE data[k]]

\* C27: a yes/no flag counts as true exactly when it is the string 'Yes':
\* every other value ('on', 'yes', True, 1, a missing key) gives the report
\* that 'No' gives, and a flag that is 'Yes' earns its points (the verified
\* bills are the flags equal to 'Yes', the guarantor base counts the
\* guarantors whose flag is 'Yes').
C27_FlagTruthiness ==
    Returned =>
        /\ report = calculate_tidescore(FlagsAsYesNo)
        /\ ~GatedOff("Bill Payments") =>
              B("Bill Payments") >=
                  Tier(2 * Cardinality({k \in BillFlags : Yes(k)}),
                       << <<4, 150>>, <<3, 100>>, <<2, 60>>, <<1, 30>> >>)
        /\ B("Guarantors") >=
               (IF Yes("g1_verified") /\ Yes("g2_verified") THEN 70
                ELSE IF Yes("g1_verified") \/ Yes("g2_verified") THEN 30 ELSE 0)
        /\ B("Guarantors") > 0 => (Yes("g1_verified") \/ Yes("g2_verified"))
        /\ (~Yes("employment_verified") /\ ~Yes("residency_verified")) =>
              B("Personal & Employment") <= 10

C27_Witness ==
    /\ Returned
    /\ data["electricity_verified"] = Str("on")
    /\ data["dstv_verified"] = PyTrue
    /\ data["internet_verified"] = Num(1)
    /\ data["water_verified"] = Str("yes")
    /\ data["rent_verified"] = Str("Yes")
    /\ data["bill_status"] = Str("Verified")
    /\ B("Bill Payments") = 30

\* the fields the record built by verify_application never carries
NeverBuilt ==
    {"employment_status", "education_level", "p2p_status", "num_unique_verified_p2p",
     "p2p_total_value", "p2p_consistent_across_months", "consistent_deposits_months",
     "avg_monthly_balance", "no_negative_flags"} \cup SpendFields \cup BillFlags

\* C26: for every admin form with overall_status 'Verified', the record
\* verify_application scores carries no employment_status, education_level,
\* p2p_status, spend, bill flag, P2P or bank amount, and its report has
\* Personal & Employment 10, Airtime, Bill, P2P and Bank 0, the P2P penalty
\* of -20 in Total Penalties, Final Raw Score <= 80, scaled_score <= 92 and
\* risk_level 'Very High'.
C26_AdminPath ==
    pc = "verified" =>
        /\ \A k \in NeverBuilt : data[k] = Absent
        /\ B("Personal & Employment") = 10
        /\ \A c \in DOMAIN GateField : B(c) = 0
        /\ B("Total Penalties") =
               -20 + (IF GatedOff("Airtime & Data") THEN -10 ELSE 0)
                   + (IF GatedOff("Bank Activity") THEN -30 ELSE 0)
                   + (IF BothGuarantorsUnverified THEN -25 ELSE 0)
        /\ B("Final Raw Score") <= 80
        /\ report.scaled_score <= 92
        /\ report.risk_level = "Very High"

C26_Witness ==
    /\ pc = "verified"
    /\ application.verification_status = Str("Verified")
    /\ application.score_result = report
    /\ B("Guarantors") = 90
    /\ B("Final Raw Score") = 80
    /\ report.scaled_score = 92

\* C30: only a request with overall_status 'Verified' writes score_result
\* and admin_verified_data together with the status; a request with any
\* other overall_status changes at most verification_status and verified_by;
\* so every change of the stored score_result comes from a 'Verified'
\* request or from /calculate_score, and stores the report just computed.
C30_ScorePersistence ==
    [][/\ pc' = "status_updated" =>
             /\ application'.score_result = application.score_result
             /\ application'.admin_verified_data = application.admin_verified_data
             /\ application' # application =>
                    application'.verification_status # Str("Verified")
       /\ application'.score_result # application.score_result =>
             /\ pc' \in {"verified", "scored"}
             /\ application'.score_result = report'
       /\ application'.admin_verified_data # application.admin_verified_data =>
             /\ pc' = "verified"
             /\ application'.admin_verified_data = data'
             /\ application'.score_result = report'
             /\ application'.verification_status = Str("Verified")]_vars

C30_Witness ==
    /\ pc = "status_updated"
    /\ application.verification_status = Str("Rejected")
    /\ application.score_result # None
    /\ application.admin_verified_data # None
    /\ application.score_result = calculate_tidescore(application.admin_verified_data)

====
